---- MODULE Spec2Model ----
(***************************************************************************)
(* Batch search and batch scrape of the SearXNG MCP server.                *)
(*                                                                         *)
(* Two implementations live in the repository and both are modelled:       *)
(*   - the package searxng_mcp (search.py, scraper.py, browser.py), whose  *)
(*     executors retry with linear backoff, and                            *)
(*   - the tool boundary server.py, whose two tools carry their own copy   *)
(*     of the request code and serialize the mapping with encode().        *)
(* One batch call runs per behaviour; `tool' says which one.  Every        *)
(* external call (HTTP GET, browser operation, encode) is an input the     *)
(* environment chooses.                                                    *)
(***************************************************************************)
EXTENDS Integers, Sequences, FiniteSets, TLC

----------------------------------------------------------------------------
\* Program constants (searxng_mcp/config.py defaults).
MAX_RETRIES == 3
RETRY_DELAY == 1
MAX_NUM_RESULTS == 50
MAX_CONTENT_LENGTH == 10000
\* config.get("num_results", 5)
DEFAULT_NUM_RESULTS == 5
\* len("...")
ELLIPSIS_LEN == 3

\* Bounds of the model.
MaxItems == 2

----------------------------------------------------------------------------
\* Inputs.

Tools == {"pkg_search", "srv_search", "pkg_scrape", "srv_scrape"}

\* A search item is a dict: a key may be absent (the record has no such field).
SearchConfigs ==
    { [num_results |-> 7],
      [query |-> ""],
      [query |-> "q1"],
      [query |-> "q1", num_results |-> 0],
      [query |-> "q1", num_results |-> 1000],
      [query |-> "q2", num_results |-> 7],
      [query |-> "q2", num_results |-> -1] }

\* A ScrapeConfig (pydantic model: every field is present).
ScrapeConfigs ==
    { [url |-> "u1", method |-> "requests", wait_time |-> 3],
      [url |-> "u1", method |-> "browser",  wait_time |-> 0],
      [url |-> "u2", method |-> "browser",  wait_time |-> 3] }

\* Number of entries of the backend's "results" array.
HitCounts == {0, 20, 60}

\* Length of the normalized text of a fetched page.
ContentLengths == {10000, 10001}

\* What one requests.get + raise_for_status + parsing can end in.
HttpResponses == {"ok", "Timeout", "ConnectionError", "HTTPError", "ValueError", "Exception"}

SeqsUpTo(S, n) == UNION { [1..k -> S] : k \in 0..n }

Min(a, b) == IF a < b THEN a ELSE b
Max(a, b) == IF a > b THEN a ELSE b

----------------------------------------------------------------------------
\* State.

VARIABLES
    tool,         \* which batch operation this behaviour runs
    items,        \* the input list (query_configs / configs)
    idx,          \* number of items taken from the list so far
    pc,           \* position of the flow
    attempt,      \* loop variable of `for attempt in range(MAX_RETRIES)'
    num_results,  \* local num_results of the current search item
    results,      \* the mapping under construction: key -> outcome
    writes,       \* history: every results[key] = ... executed, in order
    resps,        \* history: what each request of the current item ended in
    delays,       \* history: every backoff asyncio.sleep of the current item
    hits,         \* history: size of the results array of the last response
    installed,    \* whether `from playwright.async_api import ...' succeeds
    pw,           \* _playwright_instance: 0 is None, else the engine's id
    br,           \* _browser_instance: 0 is None, else the browser's id
    live,         \* status of the stored browser: connected, disconnected,
                  \* broken (is_connected() raises); "none" when br is None
    starts,       \* number of engines started so far
    launches,     \* number of browsers launched so far
    dropped,      \* history: some stored browser lost its connection
    browser,      \* local `browser' of the rendered fetch: what get_browser returned
    page,         \* local `page' of the rendered fetch: 0 is None
    open_pages,   \* pages opened on which close() was not called yet
    pending,      \* what the try/except left for after the finally block
    raised,       \* history: what the try block of the last pass of a rendered
                  \* fetch of the current item raised ("none": nothing)
    opened,       \* history: pages the current item opened
    closes,       \* history: page.close() calls of the current item
    waits,        \* history: asyncio.sleep(wait_time) calls of the current item
    nacq,         \* history: number of get_browser() calls of the current item
    cpc,          \* per caller of the browser manager: where its call is suspended
    target,       \* per caller: the object its awaited close()/stop() was called on
    trace,        \* per caller: what close() and stop() of its cleanup ended in
    unclosed,     \* browsers launched, not disconnected, close() never called on
    ncloses,      \* history: number of browser.close() calls
    nstops,       \* history: number of engine.stop() calls
    ncalls,       \* number of manager calls begun
    last,         \* history: the last manager call that completed
    overlapped,   \* history: some manager call began while another was suspended
    text,         \* the text handed to the whitespace normalization
    passes,       \* number of times the normalization was applied to it
    metered,      \* whether this behaviour keeps the totals of its batch call
    fetches,      \* history, if metered: passes of the retry loops begun in the call
    backoffs      \* history, if metered: backoff sleeps of the call

calls == <<cpc, target, trace, unclosed, ncloses, nstops, ncalls, last, overlapped>>
normalizer == <<text, passes>>
\* What a batch call never touches.
others == <<calls, normalizer, metered>>
\* The totals of one batch call.
totals == <<fetches, backoffs>>
batch == <<tool, items, others, totals, idx, pc, attempt, num_results, results, writes, resps, delays, hits>>
manager == <<installed, pw, br, live, starts, launches, dropped>>
render == <<browser, page, open_pages, pending, raised, opened, closes, waits, nacq>>
vars == <<batch, manager, render>>

----------------------------------------------------------------------------
\* Pure helpers.

\* Variant: a key already in the dict keeps its value.
DictPutKeepFirst(d, key, outcome) ==
    [k \in (DOMAIN d) \cup {key} |-> IF k = key /\ k \notin DOMAIN d THEN outcome ELSE d[k]]

\* results[key] = outcome on a dict
DictPut(d, key, outcome) ==
    [k \in (DOMAIN d) \cup {key} |-> IF k = key THEN outcome ELSE d[k]]

\* seq[:n] of Python
PySliceTo(s, n) ==
    IF n >= 0 THEN SubSeq(s, 1, Min(n, Len(s)))
              ELSE SubSeq(s, 1, Max(Len(s) + n, 0))

\* Entry i of the backend's results array, a JSON object: entries differ, some
\* lack one of the three fields, some carry other fields.
BackendHit(i) ==
    CASE i % 4 = 1 -> [title |-> "title" \o ToString(i), url |-> "url" \o ToString(i),
                       content |-> "content" \o ToString(i)]
      [] i % 4 = 2 -> [url |-> "url" \o ToString(i), content |-> "content" \o ToString(i),
                       engine |-> "engine"]
      [] i % 4 = 3 -> [title |-> "title" \o ToString(i), content |-> "content" \o ToString(i)]
      [] OTHER     -> [title |-> "title" \o ToString(i), url |-> "url" \o ToString(i)]

\* The backend's results array with h entries.
BackendHits(h) == [i \in 1..h |-> BackendHit(i)]

\* item.get(field, "")
GetOrEmpty(item, field) == IF field \in DOMAIN item THEN item[field] ELSE ""

\* Variant: the title is taken for the content.
FormatResultTitleOnly(item) ==
    [title |-> GetOrEmpty(item, "title"), url |-> GetOrEmpty(item, "url"),
     content |-> GetOrEmpty(item, "title")]

\* {"title": item.get("title", ""), "url": ..., "content": ...}
FormatResult(item) ==
    [title |-> GetOrEmpty(item, "title"), url |-> GetOrEmpty(item, "url"),
     content |-> GetOrEmpty(item, "content")]

\* formatted_results: one projected entry per entry of search_results
FormatResults(search_results) ==
    [i \in 1..Len(search_results) |-> FormatResult(search_results[i])]

\* Variant: the floor is applied to negative requests only.
validate_num_results_low(n) ==
    IF n < 0 THEN 1
    ELSE IF n > MAX_NUM_RESULTS THEN MAX_NUM_RESULTS
    ELSE n

\* validate_num_results: clamp into [1, MAX_NUM_RESULTS]
validate_num_results(n) ==
    IF n < 1 THEN 1
    ELSE IF n > MAX_NUM_RESULTS THEN MAX_NUM_RESULTS
    ELSE n

\* config.get("query") is None or ""  (`if not query')
QueryMissing(config) ==
    \/ "query" \notin DOMAIN config
    \/ config.query = ""

\* config.get("num_results", 5)
GetNumResults(config) ==
    IF "num_results" \in DOMAIN config THEN config.num_results ELSE DEFAULT_NUM_RESULTS

MISSING_QUERY_KEY == "<missing_query>"

\* Variant: a success reports the passes that failed before it.
SearchSuccessCountingRetries(rs) ==
    IF attempt = 0
    THEN [status |-> "success", count |-> Len(rs), results |-> rs]
    ELSE [status |-> "success", count |-> Len(rs), results |-> rs, retries |-> attempt]

SearchSuccess(rs) ==
    [status |-> "success", count |-> Len(rs), results |-> rs]

SearchError(e) ==
    [status |-> "error", error |-> e, count |-> 0, results |-> <<>>]

\* The message each except clause of search_query / server.search_web builds.
SearchErrorOf(resp) ==
    CASE resp = "Timeout"         -> "Request timed out"
      [] resp = "ConnectionError" -> "Failed to connect"
      [] resp = "HTTPError"       -> "HTTP error"
      [] resp = "ValueError"      -> "Invalid JSON response"
      [] OTHER                    -> "Unexpected error"

\* Variant: a retriable failure is always retried.
RetriesLeftAlways(a) == TRUE

\* Variant: one more pass is granted.
RetriesLeftOffByOne(a) == a < MAX_RETRIES

\* `if attempt < MAX_RETRIES - 1' of the retriable except clauses
RetriesLeft(a) == a < MAX_RETRIES - 1

\* Variant: the delay shrinks from pass to pass.
BackoffDelayDecreasing(a) == RETRY_DELAY * (MAX_RETRIES - a)

\* Variant: the same delay before every retry.
BackoffDelayConstant(a) == RETRY_DELAY

\* RETRY_DELAY * (attempt + 1)
BackoffDelay(a) == RETRY_DELAY * (a + 1)

\* Variant: HTTP status errors are retried too.
IsRetriableAnyRequestError(resp) == resp \in {"Timeout", "ConnectionError", "HTTPError"}

\* Which exceptions the retrying except clauses of search_query and
\* scrape_with_requests name.
IsRetriable(resp) == resp \in {"Timeout", "ConnectionError"}

\* What an except clause ends in: the backoff sleep, a return, or (no clause
\* matches) the exception leaves the function.
Sleep == [kind |-> "sleep"]
Continue == [kind |-> "continue"]
Return(outcome) == [kind |-> "return", outcome |-> outcome]
Propagate(e) == [kind |-> "raise", exc |-> e]

\* Variant: without the last clause, `except Exception'.
search_query_except_no_catch_all(e, a) ==
    IF IsRetriable(e)
    THEN IF RetriesLeft(a) THEN Sleep ELSE Return(SearchError(SearchErrorOf(e)))
    ELSE IF e \in {"HTTPError", "ValueError"}
    THEN Return(SearchError(SearchErrorOf(e)))
    ELSE Propagate(e)

\* The except clauses of search_query, for exception e raised in pass a of the
\* loop; the last clause, `except Exception', catches whatever is left.
search_query_except(e, a) ==
    IF IsRetriable(e)
    THEN IF RetriesLeft(a) THEN Sleep ELSE Return(SearchError(SearchErrorOf(e)))
    ELSE Return(SearchError(SearchErrorOf(e)))

----------------------------------------------------------------------------
\* Callers of the browser manager, and the text normalization: idle values.

\* The coroutines that may call get_browser / cleanup_browser.
Callers == {1, 2}

NoTrace == [close |-> "none", stop |-> "none"]

NoCall == [op |-> "none", result |-> "none", ret |-> 0, close |-> "none", stop |-> "none"]

\* No manager call was made and none is under way.
NoCalls ==
    /\ cpc = [c \in Callers |-> "idle"]
    /\ target = [c \in Callers |-> 0]
    /\ trace = [c \in Callers |-> NoTrace]
    /\ unclosed = {}
    /\ ncloses = 0
    /\ nstops = 0
    /\ ncalls = 0
    /\ last = NoCall
    /\ overlapped = FALSE

\* No text is being normalized.
NoText ==
    /\ text = <<>>
    /\ passes = 0

\* The totals of the batch call are not kept.
Unmetered == metered = FALSE

\* n + 1 where the totals are kept
Count(n) == IF metered THEN n + 1 ELSE n

----------------------------------------------------------------------------
\* Steps shared by the orchestrators.

\* results[key] = outcome
Record(key, outcome) ==
    /\ results' = DictPut(results, key, outcome)
    /\ writes' = Append(writes, [item |-> idx, key |-> key])

\* results[key] = outcome; the loop goes on with the next item
RecordOutcome(key, outcome) ==
    /\ Record(key, outcome)
    /\ pc' = "loop"

\* Variant: the orchestrator does not wait for an executor that backs off.
DecideWithoutAwait(d, key) ==
    CASE d.kind = "return" -> RecordOutcome(key, d.outcome)
      [] OTHER             -> /\ pc' = "loop"
                              /\ UNCHANGED <<results, writes>>

\* What follows an except clause's decision d in an executor called for key:
\* the orchestrators have no try of their own, so an exception that leaves
\* the executor leaves the batch call.
Decide(d, key) ==
    CASE d.kind = "sleep"  -> /\ pc' = "sleep"
                              /\ UNCHANGED <<results, writes>>
      [] d.kind = "return" -> RecordOutcome(key, d.outcome)
      [] OTHER             -> /\ pc' = "raised"
                              /\ UNCHANGED <<results, writes>>

\* The item now being processed.
Current == items[idx]

\* The elements of s, each once, in the order of their first occurrence.
RECURSIVE FirstOccurrences(_)
FirstOccurrences(s) ==
    IF s = <<>> THEN <<>>
    ELSE LET r == FirstOccurrences(SubSeq(s, 1, Len(s) - 1))
             x == s[Len(s)]
         IN  IF \E i \in 1..Len(r) : r[i] = x THEN r ELSE Append(r, x)

\* The keys of the dict `results' in its iteration order: a dict keeps its
\* keys in the order in which they were first assigned.
DictKeys == FirstOccurrences([i \in 1..Len(writes) |-> writes[i].key])

----------------------------------------------------------------------------
\* searxng_mcp/search.py

\* for config in query_configs: ... (up to the first request of the item)
search_web_item ==
    /\ tool = "pkg_search"
    /\ pc = "loop"
    /\ idx < Len(items)
    /\ idx' = idx + 1
    /\ resps' = <<>>
    /\ delays' = <<>>
    /\ attempt' = 0
    /\ LET config == items[idx + 1] IN
         IF QueryMissing(config)
         THEN /\ results' = DictPut(results, MISSING_QUERY_KEY, SearchError("Query field is required"))
              /\ writes' = Append(writes, [item |-> idx + 1, key |-> MISSING_QUERY_KEY])
              /\ pc' = "loop"
              /\ num_results' = num_results
         ELSE /\ num_results' = validate_num_results(GetNumResults(config))
              /\ pc' = "request"
              /\ UNCHANGED <<results, writes>>
    /\ UNCHANGED <<hits, tool, items, others, totals>>
    /\ UNCHANGED <<manager, render>>

\* return results
search_web_return ==
    /\ tool = "pkg_search"
    /\ pc = "loop"
    /\ idx = Len(items)
    /\ pc' = "done"
    /\ UNCHANGED <<hits, tool, items, others, totals, idx, attempt, num_results, results, writes, resps, delays>>
    /\ UNCHANGED <<manager, render>>

\* One pass of the body of `for attempt in range(MAX_RETRIES)': the GET, the
\* parsing, and the except clause that catches what they raise.
search_query_attempt ==
    /\ tool = "pkg_search"
    /\ pc = "request"
    /\ \E resp \in HttpResponses, h \in HitCounts :
         /\ resp # "ok" => h = 0
         /\ resps' = Append(resps, resp)
         /\ hits' = h
         /\ IF resp = "ok"
            THEN RecordOutcome(Current.query,
                   SearchSuccess(FormatResults(PySliceTo(BackendHits(h), num_results))))
            ELSE Decide(search_query_except(resp, attempt), Current.query)
    /\ fetches' = Count(fetches)
    /\ UNCHANGED <<tool, items, others, backoffs, idx, attempt, num_results, delays>>
    /\ UNCHANGED <<manager, render>>

\* await asyncio.sleep(RETRY_DELAY * (attempt + 1)); continue.  When the loop
\* is exhausted by the continue, the function returns "Max retries exceeded".
search_query_sleep ==
    /\ tool = "pkg_search"
    /\ pc = "sleep"
    /\ delays' = Append(delays, BackoffDelay(attempt))
    /\ attempt' = attempt + 1
    /\ IF attempt + 1 < MAX_RETRIES
       THEN /\ pc' = "request"
            /\ UNCHANGED <<results, writes>>
       ELSE RecordOutcome(Current.query, SearchError("Max retries exceeded"))
    /\ backoffs' = Count(backoffs)
    /\ UNCHANGED <<hits, tool, items, others, fetches, idx, num_results, resps>>
    /\ UNCHANGED <<manager, render>>

----------------------------------------------------------------------------
\* searxng_mcp/browser.py

\* What an awaited browser operation can raise: asyncio.TimeoutError, a
\* RuntimeError, or any other Exception (Playwright's own errors are these).
Faults == {"TimeoutError", "RuntimeError", "Exception"}

OkOrFault == {"ok"} \cup Faults

\* Playwright's own errors are plain Exceptions.
OkOrError == {"ok", "Exception"}

\* The RuntimeError get_browser raises when the import fails.
NOT_INSTALLED == "RuntimeError: Playwright is not installed"

IsRuntimeError(e) == e \in {"RuntimeError", NOT_INSTALLED}

\* str(e)
Message(e) == IF e = NOT_INSTALLED THEN "Playwright is not installed" ELSE "message"

\* f"{type(e).__name__}: {str(e)}"
TypeAndMessage(e) ==
    CASE e = "TimeoutError"  -> "TimeoutError: message"
      [] e = "ValueError"    -> "ValueError: message"
      [] IsRuntimeError(e)   -> "RuntimeError: message"
      [] OTHER               -> "Exception: message"

\* _browser_instance.is_connected() of the stored handle: "true", "false", or
\* "raises"
is_connected ==
    CASE live = "connected" -> "true"
      [] live = "broken"    -> "raises"
      [] OTHER              -> "false"

\* What a get_browser call leaves: the two globals, the stored handle's
\* status, the handle returned (0 when it raised), the exception, and the
\* number of engines started and of browsers launched.
Acquired(p, b, c, r, e, s, l) ==
    [pw |-> p, br |-> b, live |-> c, ret |-> r, exc |-> e, started |-> s, launched |-> l]

\* From the import on: common to both get_browser functions.  b and c are
\* _browser_instance and its status after the liveness check.
ImportStartLaunch(b, c, start, launch) ==
    IF ~installed THEN Acquired(pw, b, c, 0, NOT_INSTALLED, 0, 0)
    ELSE IF pw = 0 /\ start # "ok" THEN Acquired(pw, b, c, 0, start, 0, 0)
    ELSE LET p == IF pw = 0 THEN starts + 1 ELSE pw
             s == IF pw = 0 THEN 1 ELSE 0
         IN  IF launch # "ok"
             THEN Acquired(p, b, c, 0, launch, s, 0)
             ELSE Acquired(p, launches + 1, "connected", launches + 1, "none", s, 1)

\* Variant: the stored handle is returned without asking is_connected().
get_browser_unchecked(start, launch) ==
    IF br # 0
    THEN Acquired(pw, br, live, br, "none", 0, 0)
    ELSE ImportStartLaunch(br, live, start, launch)

\* browser.get_browser; start and launch are what async_playwright().start()
\* and chromium.launch() end in, should they be called.
get_browser(start, launch) ==
    IF br # 0 /\ is_connected = "true"
    THEN Acquired(pw, br, live, br, "none", 0, 0)
    ELSE IF br # 0 /\ is_connected = "raises"
    THEN ImportStartLaunch(0, "none", start, launch)
    ELSE ImportStartLaunch(br, live, start, launch)

\* The effect of a get_browser call on the state.
Acquire(r) ==
    /\ pw' = r.pw
    /\ br' = r.br
    /\ live' = r.live
    /\ starts' = starts + r.started
    /\ launches' = launches + r.launched
    /\ browser' = r.ret
    /\ nacq' = nacq + 1
    /\ fetches' = Count(fetches)
    /\ UNCHANGED <<installed, dropped>>

\* The stored browser's process dies or its connection drops, at any time.
BrowserDisconnect ==
    /\ tool \in {"pkg_scrape", "srv_scrape"}
    /\ pc \notin {"done", "raised"}
    /\ br # 0
    /\ live = "connected"
    /\ live' \in {"disconnected", "broken"}
    /\ dropped' = TRUE
    /\ UNCHANGED <<batch, installed, pw, br, starts, launches, render>>

----------------------------------------------------------------------------
\* searxng_mcp/scraper.py

\* content[:MAX_CONTENT_LENGTH] + "..." when the text is longer than the limit
TruncatedLength(n) ==
    IF n > MAX_CONTENT_LENGTH THEN MAX_CONTENT_LENGTH + ELLIPSIS_LEN ELSE n

ScrapeSuccess(method, n) ==
    [status |-> "success", method |-> method,
     length |-> TruncatedLength(n), original_length |-> n,
     truncated |-> (n > MAX_CONTENT_LENGTH)]

ScrapeError(method, e) ==
    [status |-> "error", method |-> method, error |-> e, length |-> 0]

\* The message each except clause of scrape_with_requests builds.
ScrapeErrorOf(resp) ==
    CASE resp = "Timeout"         -> "Request timed out"
      [] resp = "ConnectionError" -> "Failed to connect"
      [] resp = "HTTPError"       -> "HTTP error"
      [] OTHER                    -> TypeAndMessage(resp)

\* wait_time = config.wait_time if method == "browser" else 0
WaitTime(config) == IF config.method = "browser" THEN config.wait_time ELSE 0

NoPending == [kind |-> "none"]

\* The histories of one item start empty.
StartItem ==
    /\ idx' = idx + 1
    /\ attempt' = 0
    /\ resps' = <<>>
    /\ delays' = <<>>
    /\ opened' = <<>>
    /\ closes' = <<>>
    /\ waits' = <<>>
    /\ nacq' = 0
    /\ raised' = "none"

\* Variant: the two strategies are taken one for the other.
scrape_pages_item_swapped ==
    /\ tool = "pkg_scrape"
    /\ pc = "loop"
    /\ idx < Len(items)
    /\ StartItem
    /\ pc' = IF items[idx + 1].method = "requests" THEN "acquire" ELSE "request"
    /\ UNCHANGED <<hits, tool, items, others, totals, num_results, results, writes>>
    /\ UNCHANGED <<manager, browser, page, open_pages, pending>>

\* Variant: every item goes to the rendered strategy.
scrape_pages_item_always_rendered ==
    /\ tool = "pkg_scrape"
    /\ pc = "loop"
    /\ idx < Len(items)
    /\ StartItem
    /\ pc' = "acquire"
    /\ UNCHANGED <<hits, tool, items, others, totals, num_results, results, writes>>
    /\ UNCHANGED <<manager, browser, page, open_pages, pending>>

\* for config in configs: dispatch on config.method
scrape_pages_item ==
    /\ tool = "pkg_scrape"
    /\ pc = "loop"
    /\ idx < Len(items)
    /\ StartItem
    /\ pc' = IF items[idx + 1].method = "requests" THEN "request" ELSE "acquire"
    /\ UNCHANGED <<hits, tool, items, others, totals, num_results, results, writes>>
    /\ UNCHANGED <<manager, browser, page, open_pages, pending>>

\* return results
scrape_pages_return ==
    /\ tool = "pkg_scrape"
    /\ pc = "loop"
    /\ idx = Len(items)
    /\ pc' = "done"
    /\ UNCHANGED <<hits, tool, items, others, totals, idx, attempt, num_results, results, writes, resps, delays>>
    /\ UNCHANGED <<manager, render>>

\* The except clauses of scrape_with_requests, for exception e raised in pass
\* a of the loop; the last clause, `except Exception', catches whatever is left.
scrape_with_requests_except(e, a) ==
    IF IsRetriable(e)
    THEN IF RetriesLeft(a) THEN Sleep
                           ELSE Return(ScrapeError("requests", ScrapeErrorOf(e)))
    ELSE Return(ScrapeError("requests", ScrapeErrorOf(e)))

\* One pass of the loop body of scrape_with_requests.
scrape_with_requests_attempt ==
    /\ tool = "pkg_scrape"
    /\ pc = "request"
    /\ \E resp \in HttpResponses, n \in ContentLengths :
         /\ resp # "ok" => n = MAX_CONTENT_LENGTH
         /\ resps' = Append(resps, resp)
         /\ IF resp = "ok"
            THEN RecordOutcome(Current.url, ScrapeSuccess("requests", n))
            ELSE Decide(scrape_with_requests_except(resp, attempt), Current.url)
    /\ fetches' = Count(fetches)
    /\ UNCHANGED <<hits, tool, items, others, backoffs, idx, attempt, num_results, delays>>
    /\ UNCHANGED <<manager, render>>

\* await asyncio.sleep(RETRY_DELAY * (attempt + 1)); continue
scrape_with_requests_sleep ==
    /\ tool = "pkg_scrape"
    /\ pc = "sleep"
    /\ delays' = Append(delays, BackoffDelay(attempt))
    /\ attempt' = attempt + 1
    /\ IF attempt + 1 < MAX_RETRIES
       THEN /\ pc' = "request"
            /\ UNCHANGED <<results, writes>>
       ELSE RecordOutcome(Current.url, ScrapeError("requests", "Max retries exceeded"))
    /\ backoffs' = Count(backoffs)
    /\ UNCHANGED <<hits, tool, items, others, fetches, idx, num_results, resps>>
    /\ UNCHANGED <<manager, render>>

\* Variant: without the `except RuntimeError' clause.
scrape_with_browser_except_no_runtime_clause(e, a) ==
    IF RetriesLeft(a) THEN Sleep
    ELSE IF e = "TimeoutError"
    THEN Return(ScrapeError("browser", "Browser timeout"))
    ELSE Return(ScrapeError("browser", TypeAndMessage(e)))

\* Variant: the last clause, `except Exception', returns without a retry.
scrape_with_browser_except_exception_not_retried(e, a) ==
    IF e = "TimeoutError"
    THEN IF RetriesLeft(a) THEN Sleep
                           ELSE Return(ScrapeError("browser", "Browser timeout"))
    ELSE IF IsRuntimeError(e)
    THEN Return(ScrapeError("browser", Message(e)))
    ELSE Return(ScrapeError("browser", TypeAndMessage(e)))

\* The except clauses of scrape_with_browser, for exception e raised in pass a
\* of the loop: asyncio.TimeoutError, RuntimeError, Exception.
scrape_with_browser_except(e, a) ==
    IF e = "TimeoutError"
    THEN IF RetriesLeft(a) THEN Sleep
                           ELSE Return(ScrapeError("browser", "Browser timeout"))
    ELSE IF IsRuntimeError(e)
    THEN Return(ScrapeError("browser", Message(e)))
    ELSE IF RetriesLeft(a) THEN Sleep
                           ELSE Return(ScrapeError("browser", TypeAndMessage(e)))

\* The try block raised e: run the except clause, up to its sleep or its
\* return statement; the finally block comes after.
Raise(e) ==
    /\ raised' = e
    /\ IF scrape_with_browser_except(e, attempt).kind = "sleep"
       THEN /\ pc' = "backoff"
            /\ pending' = pending
       ELSE /\ pc' = "finally"
            /\ pending' = scrape_with_browser_except(e, attempt)

\* browser = await get_browser()
scrape_with_browser_acquire ==
    /\ tool = "pkg_scrape"
    /\ pc = "acquire"
    /\ \E start \in OkOrError, launch \in OkOrError :
         LET r == get_browser(start, launch) IN
           /\ start # "ok" => launch = "ok"
           /\ Acquire(r)
           /\ IF r.exc = "none"
              THEN pc' = "new_page" /\ UNCHANGED <<pending, raised>>
              ELSE Raise(r.exc)
    /\ UNCHANGED <<hits, tool, items, others, backoffs, idx, attempt, num_results, results, writes, resps, delays>>
    /\ UNCHANGED <<page, open_pages, opened, closes, waits>>

\* page = await browser.new_page(user_agent=USER_AGENT)
scrape_with_browser_new_page ==
    /\ tool = "pkg_scrape"
    /\ pc = "new_page"
    /\ \E res \in OkOrError :
         IF res = "ok"
         THEN /\ page' = Len(opened) + 1
              /\ open_pages' = open_pages \cup {Len(opened) + 1}
              /\ opened' = Append(opened, Len(opened) + 1)
              /\ pc' = "goto"
              /\ UNCHANGED <<pending, raised>>
         ELSE /\ Raise(res)
              /\ UNCHANGED <<page, open_pages, opened>>
    /\ UNCHANGED <<hits, tool, items, others, totals, idx, attempt, num_results, results, writes, resps, delays>>
    /\ UNCHANGED <<manager, browser, closes, waits, nacq>>

\* await page.goto(url, timeout=BROWSER_TIMEOUT, wait_until="networkidle")
scrape_with_browser_goto ==
    /\ tool = "pkg_scrape"
    /\ pc = "goto"
    /\ \E res \in OkOrFault :
         IF res = "ok"
         THEN /\ pc' = IF WaitTime(Current) > 0 THEN "wait" ELSE "read"
              /\ UNCHANGED <<pending, raised>>
         ELSE Raise(res)
    /\ UNCHANGED <<hits, tool, items, others, totals, idx, attempt, num_results, results, writes, resps, delays>>
    /\ UNCHANGED <<manager, browser, page, open_pages, opened, closes, waits, nacq>>

\* if wait_time > 0: await asyncio.sleep(wait_time)
scrape_with_browser_wait ==
    /\ tool = "pkg_scrape"
    /\ pc = "wait"
    /\ waits' = Append(waits, WaitTime(Current))
    /\ pc' = "read"
    /\ UNCHANGED <<hits, tool, items, others, totals, idx, attempt, num_results, results, writes, resps, delays>>
    /\ UNCHANGED <<manager, browser, page, open_pages, pending, raised, opened, closes, nacq>>

\* html = await page.content(); title = await page.title(); parse, clean,
\* truncate, and the return statement of the try block
scrape_with_browser_read ==
    /\ tool = "pkg_scrape"
    /\ pc = "read"
    /\ \E res \in OkOrError, n \in ContentLengths :
         /\ res # "ok" => n = MAX_CONTENT_LENGTH
         /\ IF res = "ok"
            THEN /\ pending' = Return(ScrapeSuccess("browser", n))
                 /\ raised' = "none"
                 /\ pc' = "finally"
            ELSE Raise(res)
    /\ UNCHANGED <<hits, tool, items, others, totals, idx, attempt, num_results, results, writes, resps, delays>>
    /\ UNCHANGED <<manager, browser, page, open_pages, opened, closes, waits, nacq>>

\* await asyncio.sleep(RETRY_DELAY * (attempt + 1)); continue  (in an except
\* clause: the finally block runs after the sleep)
scrape_with_browser_backoff ==
    /\ tool = "pkg_scrape"
    /\ pc = "backoff"
    /\ delays' = Append(delays, BackoffDelay(attempt))
    /\ pending' = Continue
    /\ pc' = "finally"
    /\ backoffs' = Count(backoffs)
    /\ UNCHANGED <<hits, tool, items, others, fetches, idx, attempt, num_results, results, writes, resps>>
    /\ UNCHANGED <<manager, browser, page, open_pages, raised, opened, closes, waits, nacq>>

\* Variant: only the page of the first pass is closed.
ClosePageOfFirstPassOnly ==
    IF page # 0 /\ attempt = 0
    THEN /\ closes' = Append(closes, page)
         /\ open_pages' = open_pages \ {page}
    ELSE UNCHANGED <<closes, open_pages>>

\* Variant: the page of a pass that will be retried is not closed.
ClosePageUnlessRetrying ==
    IF page # 0 /\ pending.kind # "continue"
    THEN /\ closes' = Append(closes, page)
         /\ open_pages' = open_pages \ {page}
    ELSE UNCHANGED <<closes, open_pages>>

\* `if page is not None: await page.close()': the call is made on the page;
\* open_pages holds the pages on which close() was not called yet.
ClosePage ==
    IF page # 0
    THEN /\ closes' = Append(closes, page)
         /\ open_pages' = open_pages \ {page}
    ELSE UNCHANGED <<closes, open_pages>>

\* finally: if page is not None: try: await page.close() except Exception: pass
\* (whatever close() raises is swallowed), and then what the try/except
\* decided: the return, or the next pass of the loop.
scrape_with_browser_finally ==
    /\ tool = "pkg_scrape"
    /\ pc = "finally"
    /\ ClosePage
    /\ page' = 0
    /\ pending' = NoPending
    /\ IF pending.kind = "return"
       THEN /\ RecordOutcome(Current.url, pending.outcome)
            /\ UNCHANGED attempt
       ELSE /\ attempt' = attempt + 1
            /\ IF attempt + 1 < MAX_RETRIES
               THEN /\ pc' = "acquire"
                    /\ UNCHANGED <<results, writes>>
               ELSE RecordOutcome(Current.url, ScrapeError("browser", "Max retries exceeded"))
    /\ UNCHANGED <<hits, tool, items, others, totals, idx, num_results, resps, delays>>
    /\ UNCHANGED <<manager, browser, raised, opened, waits, nacq>>

----------------------------------------------------------------------------
\* server.py: the search_web tool

\* for i, config in enumerate(query_configs): query = config["query"]; ...
server_search_web_item ==
    /\ tool = "srv_search"
    /\ pc = "loop"
    /\ idx < Len(items)
    /\ idx' = idx + 1
    /\ resps' = <<>>
    /\ delays' = <<>>
    /\ attempt' = 0
    /\ LET config == items[idx + 1] IN
         IF "query" \notin DOMAIN config
         THEN /\ pc' = "raised"          \* KeyError, outside every try
              /\ num_results' = num_results
         ELSE /\ pc' = "request"
              /\ num_results' = GetNumResults(config)
    /\ UNCHANGED <<hits, tool, items, others, totals, results, writes>>
    /\ UNCHANGED <<manager, render>>

\* the try block of one item and its except clauses
server_search_web_request ==
    /\ tool = "srv_search"
    /\ pc = "request"
    /\ \E resp \in HttpResponses, h \in HitCounts :
         /\ resp # "ok" => h = 0
         /\ resps' = Append(resps, resp)
         /\ hits' = h
         /\ IF resp = "ok"
            THEN RecordOutcome(Current.query,
                   SearchSuccess(FormatResults(PySliceTo(BackendHits(h), num_results))))
            ELSE RecordOutcome(Current.query, SearchError(SearchErrorOf(resp)))
    /\ fetches' = Count(fetches)
    /\ UNCHANGED <<tool, items, others, backoffs, idx, attempt, num_results, delays>>
    /\ UNCHANGED <<manager, render>>

\* return encode(results): outside every try
server_search_web_return ==
    /\ tool = "srv_search"
    /\ pc = "loop"
    /\ idx = Len(items)
    /\ \E encoded \in BOOLEAN : pc' = IF encoded THEN "done" ELSE "raised"
    /\ UNCHANGED <<hits, tool, items, others, totals, idx, attempt, num_results, results, writes, resps, delays>>
    /\ UNCHANGED <<manager, render>>

----------------------------------------------------------------------------
\* server.py: get_browser and the scrape_pages tool

\* server.get_browser: is_connected() is called outside any try
server_get_browser(start, launch) ==
    IF br # 0 /\ is_connected = "true"
    THEN Acquired(pw, br, live, br, "none", 0, 0)
    ELSE IF br # 0 /\ is_connected = "raises"
    THEN Acquired(pw, br, live, 0, "Exception", 0, 0)
    ELSE ImportStartLaunch(br, live, start, launch)

ServerScrapeSuccess(method, n) ==
    [status |-> "success", method |-> method,
     length |-> TruncatedLength(n)]

\* The except clauses around one item of server.scrape_pages.
ServerScrapeError(method, e) ==
    ScrapeError(method,
        CASE e = "Timeout"         -> "Request timed out"
          [] e = "ConnectionError" -> "Failed to connect"
          [] e = "HTTPError"       -> "HTTP error"
          [] IsRuntimeError(e)     -> Message(e)
          [] OTHER                 -> TypeAndMessage(e))

\* for i, config in enumerate(configs): dispatch on config.method
server_scrape_pages_item ==
    /\ tool = "srv_scrape"
    /\ pc = "loop"
    /\ idx < Len(items)
    /\ StartItem
    /\ pc' = IF items[idx + 1].method = "requests" THEN "request" ELSE "acquire"
    /\ UNCHANGED <<hits, tool, items, others, totals, num_results, results, writes>>
    /\ UNCHANGED <<manager, browser, page, open_pages, pending>>

\* the static branch of the try block and the except clauses
server_scrape_pages_request ==
    /\ tool = "srv_scrape"
    /\ pc = "request"
    /\ \E resp \in HttpResponses, n \in ContentLengths :
         /\ resp # "ok" => n = MAX_CONTENT_LENGTH
         /\ resps' = Append(resps, resp)
         /\ IF resp = "ok"
            THEN RecordOutcome(Current.url, ServerScrapeSuccess("requests", n))
            ELSE RecordOutcome(Current.url, ServerScrapeError("requests", resp))
    /\ fetches' = Count(fetches)
    /\ UNCHANGED <<hits, tool, items, others, backoffs, idx, attempt, num_results, delays>>
    /\ UNCHANGED <<manager, render>>

\* browser = await get_browser()
server_scrape_pages_acquire ==
    /\ tool = "srv_scrape"
    /\ pc = "acquire"
    /\ \E start \in OkOrError, launch \in OkOrError :
         LET r == server_get_browser(start, launch) IN
           /\ start # "ok" => launch = "ok"
           /\ Acquire(r)
           /\ IF r.exc = "none"
              THEN /\ pc' = "new_page"
                   /\ UNCHANGED <<results, writes, raised>>
              ELSE /\ RecordOutcome(Current.url, ServerScrapeError("browser", r.exc))
                   /\ raised' = r.exc
    /\ UNCHANGED <<hits, tool, items, others, backoffs, idx, attempt, num_results, resps, delays>>
    /\ UNCHANGED <<page, open_pages, pending, opened, closes, waits>>

\* page = await browser.new_page(user_agent=USER_AGENT): before the inner try
server_scrape_pages_new_page ==
    /\ tool = "srv_scrape"
    /\ pc = "new_page"
    /\ \E res \in OkOrError :
         IF res = "ok"
         THEN /\ page' = Len(opened) + 1
              /\ open_pages' = open_pages \cup {Len(opened) + 1}
              /\ opened' = Append(opened, Len(opened) + 1)
              /\ pc' = "goto"
              /\ UNCHANGED <<results, writes, raised>>
         ELSE /\ RecordOutcome(Current.url, ServerScrapeError("browser", res))
              /\ raised' = res
              /\ UNCHANGED <<page, open_pages, opened>>
    /\ UNCHANGED <<hits, tool, items, others, totals, idx, attempt, num_results, resps, delays>>
    /\ UNCHANGED <<manager, browser, pending, closes, waits, nacq>>

\* await page.goto(...): inside the inner try
server_scrape_pages_goto ==
    /\ tool = "srv_scrape"
    /\ pc = "goto"
    /\ \E res \in OkOrFault :
         IF res = "ok"
         THEN /\ pc' = IF WaitTime(Current) > 0 THEN "wait" ELSE "read"
              /\ pending' = pending
         ELSE /\ pc' = "finally"
              /\ pending' = Propagate(res)
    /\ UNCHANGED <<hits, tool, items, others, totals, idx, attempt, num_results, results, writes, resps, delays>>
    /\ UNCHANGED <<manager, browser, page, open_pages, raised, opened, closes, waits, nacq>>

\* if wait_time > 0: await asyncio.sleep(wait_time)
server_scrape_pages_wait ==
    /\ tool = "srv_scrape"
    /\ pc = "wait"
    /\ waits' = Append(waits, WaitTime(Current))
    /\ pc' = "read"
    /\ UNCHANGED <<hits, tool, items, others, totals, idx, attempt, num_results, results, writes, resps, delays>>
    /\ UNCHANGED <<manager, browser, page, open_pages, pending, raised, opened, closes, nacq>>

\* page.content(), page.title(), parse, clean, truncate, and
\* results[url] = {...success...}, all inside the inner try
server_scrape_pages_read ==
    /\ tool = "srv_scrape"
    /\ pc = "read"
    /\ \E res \in OkOrError, n \in ContentLengths :
         /\ res # "ok" => n = MAX_CONTENT_LENGTH
         /\ IF res = "ok"
            THEN /\ Record(Current.url, ServerScrapeSuccess("browser", n))
                 /\ pending' = pending
            ELSE /\ pending' = Propagate(res)
                 /\ UNCHANGED <<results, writes>>
    /\ pc' = "finally"
    /\ UNCHANGED <<hits, tool, items, others, totals, idx, attempt, num_results, resps, delays>>
    /\ UNCHANGED <<manager, browser, page, open_pages, raised, opened, closes, waits, nacq>>

\* finally: await page.close().  What close() raises replaces the exception
\* in flight and reaches the except clauses of the item.
server_scrape_pages_finally ==
    /\ tool = "srv_scrape"
    /\ pc = "finally"
    /\ ClosePage
    /\ page' = 0
    /\ pending' = NoPending
    /\ \E res \in OkOrFault :
         /\ page = 0 => res = "ok"
         /\ IF res # "ok"
            THEN /\ RecordOutcome(Current.url, ServerScrapeError("browser", res))
                 /\ raised' = res
            ELSE IF pending.kind = "raise"
            THEN /\ RecordOutcome(Current.url, ServerScrapeError("browser", pending.exc))
                 /\ raised' = pending.exc
            ELSE /\ pc' = "loop"
                 /\ raised' = "none"
                 /\ UNCHANGED <<results, writes>>
    /\ UNCHANGED <<hits, tool, items, others, totals, idx, attempt, num_results, resps, delays>>
    /\ UNCHANGED <<manager, browser, opened, waits, nacq>>

\* return encode(results): outside every try
server_scrape_pages_return ==
    /\ tool = "srv_scrape"
    /\ pc = "loop"
    /\ idx = Len(items)
    /\ \E encoded \in BOOLEAN : pc' = IF encoded THEN "done" ELSE "raised"
    /\ UNCHANGED <<hits, tool, items, others, totals, idx, attempt, num_results, results, writes, resps, delays>>
    /\ UNCHANGED <<manager, render>>

----------------------------------------------------------------------------
\* The browser manager called by several coroutines: get_browser and
\* cleanup_browser of searxng_mcp/browser.py ("pkg_manager") and of server.py
\* ("srv_manager"), cut at their awaits.  Between an await and its completion
\* any other caller may run.

Managers == {"pkg_manager", "srv_manager"}

\* Bound: number of manager calls in one behaviour.
MaxCalls == 3

\* The globals and histories of the manager as one value, with the position,
\* the awaited object and the trace of caller c.
Mgr(c) ==
    [pw |-> pw, br |-> br, live |-> live, starts |-> starts, launches |-> launches,
     unclosed |-> unclosed, ncloses |-> ncloses, nstops |-> nstops,
     at |-> cpc[c], target |-> target[c], trace |-> trace[c], done |-> NoCall]

\* The call returns ret.
Returned(m, op, ret) ==
    [m EXCEPT !.at = "idle",
              !.done = [op |-> op, result |-> "returned", ret |-> ret,
                        close |-> m.trace.close, stop |-> m.trace.stop]]

\* An exception leaves the call.
RaisedOut(m, op) ==
    [m EXCEPT !.at = "idle",
              !.done = [op |-> op, result |-> "raised", ret |-> 0,
                        close |-> m.trace.close, stop |-> m.trace.stop]]

\* Variant: the engine is started whether one is stored or not.
get_browser_import_always_starts(m) ==
    IF ~installed THEN RaisedOut(m, "get_browser")
    ELSE [m EXCEPT !.at = "start"]

\* get_browser from the import to its first await: the import fails, or
\* `await async_playwright().start()' when no engine is stored, or
\* `await _playwright_instance.chromium.launch(...)' on the stored engine.
get_browser_import(m) ==
    IF ~installed THEN RaisedOut(m, "get_browser")
    ELSE IF m.pw = 0 THEN [m EXCEPT !.at = "start"]
    ELSE [m EXCEPT !.at = "launch", !.target = m.pw]

\* Variant: the stored handle is returned without asking is_connected().
get_browser_begin_unchecked(m) ==
    IF m.br # 0 THEN Returned(m, "get_browser", m.br) ELSE get_browser_import(m)

\* browser.get_browser up to its first await.
get_browser_begin(m) ==
    IF m.br # 0 /\ is_connected = "true" THEN Returned(m, "get_browser", m.br)
    ELSE IF m.br # 0 /\ is_connected = "raises"
    THEN get_browser_import([m EXCEPT !.br = 0, !.live = "none"])
    ELSE get_browser_import(m)

\* server.get_browser up to its first await: is_connected() is in no try.
server_get_browser_begin(m) ==
    IF m.br # 0 /\ is_connected = "true" THEN Returned(m, "get_browser", m.br)
    ELSE IF m.br # 0 /\ is_connected = "raises" THEN RaisedOut(m, "get_browser")
    ELSE get_browser_import(m)

\* `_playwright_instance = await async_playwright().start()' completes with
\* res; the launch is then called on the engine just stored.
get_browser_started(m, res) ==
    IF res # "ok" THEN RaisedOut(m, "get_browser")
    ELSE [m EXCEPT !.starts = m.starts + 1, !.pw = m.starts + 1,
                   !.at = "launch", !.target = m.starts + 1]

\* `_browser_instance = await ...launch(...)' completes with res;
\* return _browser_instance
get_browser_launched(m, res) ==
    IF res # "ok" THEN RaisedOut(m, "get_browser")
    ELSE Returned([m EXCEPT !.launches = m.launches + 1, !.br = m.launches + 1,
                            !.live = "connected",
                            !.unclosed = m.unclosed \cup {m.launches + 1}],
                  "get_browser", m.launches + 1)

\* if _playwright_instance is not None: await _playwright_instance.stop()
cleanup_browser_engine(m) ==
    IF m.pw # 0
    THEN [m EXCEPT !.at = "stop", !.target = m.pw, !.nstops = m.nstops + 1]
    ELSE Returned(m, "cleanup_browser", 0)

\* cleanup_browser up to its first await:
\* if _browser_instance is not None: await _browser_instance.close()
cleanup_browser_begin(m) ==
    IF m.br # 0
    THEN [m EXCEPT !.at = "close", !.target = m.br, !.ncloses = m.ncloses + 1,
                   !.unclosed = m.unclosed \ {m.br}]
    ELSE cleanup_browser_engine(m)

\* Variant: the handle is kept when close() failed.
cleanup_browser_closed_keeps_handle(m, res) ==
    IF res # "ok"
    THEN cleanup_browser_engine([m EXCEPT !.trace.close = res])
    ELSE cleanup_browser_engine([m EXCEPT !.trace.close = res, !.br = 0, !.live = "none"])

\* browser.cleanup_browser, close() completes with res:
\* except Exception: pass; finally: _browser_instance = None
cleanup_browser_closed(m, res) ==
    cleanup_browser_engine([m EXCEPT !.trace.close = res, !.br = 0, !.live = "none"])

\* browser.cleanup_browser, stop() completes with res:
\* except Exception: pass; finally: _playwright_instance = None
cleanup_browser_stopped(m, res) ==
    Returned([m EXCEPT !.trace.stop = res, !.pw = 0], "cleanup_browser", 0)

\* server.cleanup_browser, close() completes with res: no try
server_cleanup_browser_closed(m, res) ==
    IF res # "ok" THEN RaisedOut([m EXCEPT !.trace.close = res], "cleanup_browser")
    ELSE cleanup_browser_engine([m EXCEPT !.trace.close = res, !.br = 0, !.live = "none"])

\* server.cleanup_browser, stop() completes with res: no try
server_cleanup_browser_stopped(m, res) ==
    IF res # "ok" THEN RaisedOut([m EXCEPT !.trace.stop = res], "cleanup_browser")
    ELSE Returned([m EXCEPT !.trace.stop = res, !.pw = 0], "cleanup_browser", 0)

\* Caller c has run up to its next await, or to the end of its call.
Apply(c, m) ==
    /\ pw' = m.pw
    /\ br' = m.br
    /\ live' = m.live
    /\ starts' = m.starts
    /\ launches' = m.launches
    /\ unclosed' = m.unclosed
    /\ ncloses' = m.ncloses
    /\ nstops' = m.nstops
    /\ cpc' = [cpc EXCEPT ![c] = m.at]
    /\ target' = [target EXCEPT ![c] = IF m.at = "idle" THEN 0 ELSE m.target]
    /\ trace' = [trace EXCEPT ![c] = IF m.at = "idle" THEN NoTrace ELSE m.trace]
    /\ last' = IF m.done.op # "none" THEN m.done ELSE last
    /\ UNCHANGED <<installed, dropped>>

\* Caller c, idle, makes a call.
Begin(c) ==
    /\ cpc[c] = "idle"
    /\ ncalls < MaxCalls
    /\ ncalls' = ncalls + 1
    /\ overlapped' = (overlapped \/ \E d \in Callers : d # c /\ cpc[d] # "idle")

\* What the manager calls never touch.
outside == <<tool, items, normalizer, metered, totals, idx, pc, attempt, num_results, results,
             writes, resps, delays, hits, render>>

\* A caller calls get_browser().
manager_get_browser ==
    /\ tool \in Managers
    /\ \E c \in Callers :
         /\ Begin(c)
         /\ Apply(c, IF tool = "pkg_manager" THEN get_browser_begin(Mgr(c))
                                             ELSE server_get_browser_begin(Mgr(c)))
    /\ UNCHANGED outside

\* The await of async_playwright().start() of a caller completes.
manager_get_browser_started ==
    /\ tool \in Managers
    /\ \E c \in Callers, res \in OkOrError :
         /\ cpc[c] = "start"
         /\ Apply(c, get_browser_started(Mgr(c), res))
    /\ UNCHANGED <<outside, ncalls, overlapped>>

\* The await of chromium.launch() of a caller completes.
manager_get_browser_launched ==
    /\ tool \in Managers
    /\ \E c \in Callers, res \in OkOrError :
         /\ cpc[c] = "launch"
         /\ Apply(c, get_browser_launched(Mgr(c), res))
    /\ UNCHANGED <<outside, ncalls, overlapped>>

\* A caller calls cleanup_browser().
manager_cleanup_browser ==
    /\ tool \in Managers
    /\ \E c \in Callers :
         /\ Begin(c)
         /\ Apply(c, cleanup_browser_begin(Mgr(c)))
    /\ UNCHANGED outside

\* The await of _browser_instance.close() of a caller completes.
manager_cleanup_browser_closed ==
    /\ tool \in Managers
    /\ \E c \in Callers, res \in OkOrError :
         /\ cpc[c] = "close"
         /\ Apply(c, IF tool = "pkg_manager"
                     THEN cleanup_browser_closed(Mgr(c), res)
                     ELSE server_cleanup_browser_closed(Mgr(c), res))
    /\ UNCHANGED <<outside, ncalls, overlapped>>

\* The await of _playwright_instance.stop() of a caller completes.
manager_cleanup_browser_stopped ==
    /\ tool \in Managers
    /\ \E c \in Callers, res \in OkOrError :
         /\ cpc[c] = "stop"
         /\ Apply(c, IF tool = "pkg_manager"
                     THEN cleanup_browser_stopped(Mgr(c), res)
                     ELSE server_cleanup_browser_stopped(Mgr(c), res))
    /\ UNCHANGED <<outside, ncalls, overlapped>>

\* The stored browser's process dies or its connection drops, at any time.
manager_disconnect ==
    /\ tool \in Managers
    /\ br # 0
    /\ live = "connected"
    /\ live' \in {"disconnected", "broken"}
    /\ dropped' = TRUE
    /\ unclosed' = unclosed \ {br}
    /\ UNCHANGED <<outside, installed, pw, br, starts, launches>>
    /\ UNCHANGED <<cpc, target, trace, ncloses, nstops, ncalls, last, overlapped>>

----------------------------------------------------------------------------
\* clean_html: the whitespace normalization, text = ' '.join(text.split()).
\* A text is a sequence of characters.

\* Bound: length of the texts normalized.
MaxTextLen == 4

\* The characters of the texts: two letters and three kinds of whitespace.
Chars == {"a", "b", " ", "\n", "\t"}

\* What str.split() takes for a separator.
IsSpace(ch) == ch \in {" ", "\n", "\t"}

\* Length of the longest prefix of t without whitespace.
RECURSIVE WordLength(_)
WordLength(t) ==
    IF t = <<>> \/ IsSpace(Head(t)) THEN 0 ELSE 1 + WordLength(Tail(t))

\* text.split(): the maximal runs of characters that are not whitespace
RECURSIVE Split(_)
Split(t) ==
    IF t = <<>> THEN <<>>
    ELSE IF IsSpace(Head(t)) THEN Split(Tail(t))
    ELSE <<SubSeq(t, 1, WordLength(t))>> \o Split(SubSeq(t, WordLength(t) + 1, Len(t)))

\* ' '.join(words)
RECURSIVE Join(_)
Join(words) ==
    IF words = <<>> THEN <<>>
    ELSE IF Len(words) = 1 THEN words[1]
    ELSE words[1] \o <<" ">> \o Join(Tail(words))

\* Variant: text.replace of every two whitespace characters by one space,
\* in one pass from the left.
RECURSIVE ReplacePairsOfSpaces(_)
ReplacePairsOfSpaces(t) ==
    IF Len(t) < 2 THEN t
    ELSE IF IsSpace(t[1]) /\ IsSpace(t[2])
    THEN <<" ">> \o ReplacePairsOfSpaces(SubSeq(t, 3, Len(t)))
    ELSE <<t[1]>> \o ReplacePairsOfSpaces(Tail(t))

\* text = ' '.join(text.split())
NormalizeWhitespace(t) == Join(Split(t))

\* The normalization is applied to the text (once more).
clean_html_normalize ==
    /\ tool = "clean_html"
    /\ passes < 2
    /\ text' = NormalizeWhitespace(text)
    /\ passes' = passes + 1
    /\ UNCHANGED <<tool, items, calls, metered, totals, idx, pc, attempt, num_results, results,
                   writes, resps, delays, hits, manager, render>>

----------------------------------------------------------------------------
\* Specification.

\* results = {} and the other locals of a batch call before its loop
BatchStart ==
    /\ idx = 0
    /\ pc = "loop"
    /\ attempt = 0
    /\ num_results = 0
    /\ results = <<>>
    /\ writes = <<>>
    /\ resps = <<>>
    /\ delays = <<>>
    /\ hits = 0
    /\ fetches = 0
    /\ backoffs = 0

\* _playwright_instance = None; _browser_instance = None
ManagerStart ==
    /\ pw = 0
    /\ br = 0
    /\ live = "none"
    /\ starts = 0
    /\ launches = 0
    /\ dropped = FALSE

\* No rendered fetch has run.
RenderStart ==
    /\ browser = 0
    /\ page = 0
    /\ open_pages = {}
    /\ pending = NoPending
    /\ raised = "none"
    /\ opened = <<>>
    /\ closes = <<>>
    /\ waits = <<>>
    /\ nacq = 0

\* One batch call, in a process that has just started.
Init ==
    /\ tool \in Tools
    /\ items \in SeqsUpTo(IF tool \in {"pkg_search", "srv_search"}
                           THEN SearchConfigs ELSE ScrapeConfigs, MaxItems)
    /\ installed \in BOOLEAN
    /\ tool \in {"pkg_search", "srv_search"} => installed
    /\ BatchStart
    /\ ManagerStart
    /\ RenderStart
    /\ NoCalls
    /\ NoText
    /\ Unmetered

Next ==
    \/ search_web_item
    \/ search_web_return
    \/ search_query_attempt
    \/ search_query_sleep
    \/ server_search_web_item
    \/ server_search_web_request
    \/ server_search_web_return
    \/ BrowserDisconnect
    \/ scrape_pages_item
    \/ scrape_pages_return
    \/ scrape_with_requests_attempt
    \/ scrape_with_requests_sleep
    \/ scrape_with_browser_acquire
    \/ scrape_with_browser_new_page
    \/ scrape_with_browser_goto
    \/ scrape_with_browser_wait
    \/ scrape_with_browser_read
    \/ scrape_with_browser_backoff
    \/ scrape_with_browser_finally
    \/ server_scrape_pages_item
    \/ server_scrape_pages_request
    \/ server_scrape_pages_acquire
    \/ server_scrape_pages_new_page
    \/ server_scrape_pages_goto
    \/ server_scrape_pages_wait
    \/ server_scrape_pages_read
    \/ server_scrape_pages_finally
    \/ server_scrape_pages_return

Spec == Init /\ [][Next]_vars

\* A process that has just started, whose coroutines call the manager.
\* One batch call whose totals are kept.
MeteredInit ==
    /\ tool \in Tools
    /\ items \in SeqsUpTo(IF tool \in {"pkg_search", "srv_search"}
                           THEN SearchConfigs ELSE ScrapeConfigs, MaxItems)
    /\ installed \in BOOLEAN
    /\ tool \in {"pkg_search", "srv_search"} => installed
    /\ BatchStart
    /\ ManagerStart
    /\ RenderStart
    /\ NoCalls
    /\ NoText
    /\ metered = TRUE

\* Every external call returns or fails, and the event loop resumes the
\* coroutine of the batch call: a step of the call (any step but the loss of
\* the browser's connection, which leaves batch and render alone) that stays
\* possible is taken.
MeteredSpec == MeteredInit /\ [][Next]_vars /\ WF_<<batch, render>>(Next)

ManagerInit ==
    /\ tool \in Managers
    /\ items = <<>>
    /\ installed \in BOOLEAN
    /\ BatchStart
    /\ ManagerStart
    /\ RenderStart
    /\ NoCalls
    /\ NoText
    /\ Unmetered

ManagerNext ==
    \/ manager_get_browser
    \/ manager_get_browser_started
    \/ manager_get_browser_launched
    \/ manager_cleanup_browser
    \/ manager_cleanup_browser_closed
    \/ manager_cleanup_browser_stopped
    \/ manager_disconnect

ManagerSpec == ManagerInit /\ [][ManagerNext]_vars

\* Any text extracted from a page, before its normalization.
NormalizeInit ==
    /\ tool = "clean_html"
    /\ items = <<>>
    /\ installed = TRUE
    /\ text \in SeqsUpTo(Chars, MaxTextLen)
    /\ passes = 0
    /\ BatchStart
    /\ ManagerStart
    /\ RenderStart
    /\ NoCalls
    /\ Unmetered

NormalizeNext == clean_html_normalize

NormalizeSpec == NormalizeInit /\ [][NormalizeNext]_vars

----------------------------------------------------------------------------
\* Properties.

PackageTools == {"pkg_search", "pkg_scrape"}
ServerTools == {"srv_search", "srv_scrape"}
SearchTools == {"pkg_search", "srv_search"}

\* The executor of the current item has returned (or was never called).
ItemFinished == idx >= 1 /\ pc \in {"loop", "done"}

\* C1: the package's batch orchestrators search_web and scrape_pages never
\* raise; every item taken from the list causes exactly one write into the
\* mapping (the i-th write is item i's, and it is there once the item is
\* finished), the written key is in the mapping, and the call returns only
\* after every item of the list was written, whatever the earlier items ended
\* in.
C1_OneOutcomePerItemNeverRaises ==
    tool \in PackageTools =>
        /\ pc # "raised"
        /\ Len(writes) = (IF pc \in {"loop", "done"} THEN idx ELSE idx - 1)
        /\ \A i \in 1..Len(writes) :
             /\ writes[i].item = i
             /\ writes[i].key \in DOMAIN results
        /\ pc = "done" => Len(writes) = Len(items)

\* A batch of two searches returned: the first item failed, the second, after
\* it, succeeded.
C1_Witness ==
    /\ tool = "pkg_search"
    /\ pc = "done"
    /\ Len(items) = 2
    /\ Len(writes) = 2
    /\ writes[1].key # writes[2].key
    /\ results[writes[1].key].status = "error"
    /\ results[writes[2].key].status = "success"

\* C2: no fault propagates out of the two tools of server.py: an item with no
\* 'query' key, a fault of the orchestration and a fault of encode() all end
\* in a returned payload.
C2_BoundaryNeverPropagates ==
    tool \in ServerTools => pc # "raised"

\* C3: once a search item whose query is missing or empty has been taken, no
\* request was issued for it, an error outcome is in the mapping under the
\* sentinel key, and the batch goes on (it did not raise).
C3_MissingQueryRecordedWithoutRequest ==
    (tool \in SearchTools /\ idx >= 1 /\ QueryMissing(Current)) =>
        /\ pc \in {"loop", "done"}
        /\ resps = <<>>
        /\ MISSING_QUERY_KEY \in DOMAIN results
        /\ results[MISSING_QUERY_KEY].status = "error"

\* Clamping into [1, MAX_NUM_RESULTS], written without validate_num_results.
C4_Clamp(r) == Max(1, Min(r, MAX_NUM_RESULTS))

\* C4: a successful search outcome of an item that requested r results from
\* a backend returning h hits holds exactly min(clamp(r), h) results.
C4_SuccessHoldsClampedCount ==
    (/\ tool \in SearchTools
     /\ ItemFinished
     /\ ~QueryMissing(Current)
     /\ resps # <<>>
     /\ resps[Len(resps)] = "ok") =>
        /\ results[Current.query].status = "success"
        /\ results[Current.query].count = Min(C4_Clamp(GetNumResults(Current)), hits)
        /\ Len(results[Current.query].results) = results[Current.query].count

\* The fetch of the current item is the static one of the package.
StaticFetch == tool = "pkg_scrape" /\ idx >= 1 /\ Current.method = "requests"

\* The fetch of the current item is the rendered one of the package.
RenderedFetch == tool = "pkg_scrape" /\ idx >= 1 /\ Current.method = "browser"

\* C5: a static fetch all of whose requests timed out has, when it returns,
\* issued exactly MAX_RETRIES requests, slept between consecutive requests
\* only (MAX_RETRIES - 1 delays) for delays that never decrease, and returned
\* the timeout error outcome.
C5_AlwaysTimingOutStaticFetch ==
    (/\ StaticFetch
     /\ ItemFinished
     /\ \A i \in 1..Len(resps) : resps[i] = "Timeout") =>
        /\ Len(resps) = MAX_RETRIES
        /\ Len(delays) = MAX_RETRIES - 1
        /\ \A i \in 1..(Len(delays) - 1) : delays[i] <= delays[i + 1]
        /\ results[Current.url].status = "error"
        /\ results[Current.url].error = "Request timed out"

\* A static fetch returned after three timeouts and two backoff delays.
C5_Witness ==
    /\ StaticFetch
    /\ ItemFinished
    /\ resps = <<"Timeout", "Timeout", "Timeout">>
    /\ Len(delays) = 2
    /\ delays[1] < delays[2]

\* The executor of the current item returned after MAX_RETRIES attempts that
\* all ended in a failure its except clauses retry.
C6_Exhausted ==
    /\ tool \in PackageTools
    /\ ItemFinished
    /\ IF RenderedFetch
       THEN nacq = MAX_RETRIES /\ raised \in {"TimeoutError", "Exception"}
       ELSE /\ Len(resps) = MAX_RETRIES
            /\ \A i \in 1..Len(resps) : resps[i] \in {"Timeout", "ConnectionError"}

\* The outcome the executor of the current item returned.
CurrentOutcome == results[IF tool = "pkg_search" THEN Current.query ELSE Current.url]

\* C6 as stated: an executor that used up its MAX_RETRIES attempts on
\* retriable failures returns the "max retries exceeded" message.
C6_ExhaustedSaysMaxRetriesExceeded ==
    C6_Exhausted => CurrentOutcome.error = "Max retries exceeded"

\* C6, amended: an executor that used up its MAX_RETRIES attempts on
\* retriable failures returns the message of the failure of its last attempt
\* (timed out or failed to connect; for the rendered fetch the browser
\* timeout or the exception's type and message), and no outcome of a batch
\* ever carries the "max retries exceeded" message.
C6_ExhaustedSaysLastFailure ==
    /\ C6_Exhausted =>
         /\ CurrentOutcome.status = "error"
         /\ CurrentOutcome.error =
              IF RenderedFetch
              THEN (IF raised = "TimeoutError" THEN "Browser timeout"
                                               ELSE "Exception: message")
              ELSE (IF resps[MAX_RETRIES] = "Timeout" THEN "Request timed out"
                                                      ELSE "Failed to connect")
    /\ tool \in PackageTools =>
         \A k \in DOMAIN results :
             results[k].status = "error" => results[k].error # "Max retries exceeded"

\* A search gave up after a timeout and two connection failures.
C6_Witness ==
    /\ tool = "pkg_search"
    /\ C6_Exhausted
    /\ resps = <<"Timeout", "ConnectionError", "ConnectionError">>
    /\ CurrentOutcome.error = "Failed to connect"

\* C7: in search_query and scrape_with_requests, an attempt that ends in
\* anything but success, a timeout or a connection failure is the last
\* request of the item: the executor has returned an error outcome, and the
\* only backoff delays are those before the earlier attempts.
C7_NonRetriableSurfacedImmediately ==
    (tool = "pkg_search" \/ StaticFetch) =>
        \A i \in 1..Len(resps) :
            resps[i] \notin {"ok", "Timeout", "ConnectionError"} =>
                /\ i = Len(resps)
                /\ pc \in {"loop", "done"}
                /\ Len(delays) = i - 1
                /\ CurrentOutcome.status = "error"
                /\ CurrentOutcome.error \notin {"Request timed out", "Failed to connect",
                                            "Max retries exceeded"}

\* The second attempt of a search, after one backoff, ended in an HTTP status
\* error and the search returned.
C7_Witness ==
    /\ tool = "pkg_search"
    /\ resps = <<"Timeout", "HTTPError">>
    /\ Len(delays) = 1
    /\ pc = "loop"
    /\ CurrentOutcome.error = "HTTP error"

\* The current item is a rendered fetch, of the package or of server.py.
AnyRenderedFetch ==
    /\ tool \in {"pkg_scrape", "srv_scrape"}
    /\ idx >= 1
    /\ Current.method = "browser"

\* C8: when a rendered fetch has returned, close() was called exactly once
\* on every page the fetch opened (closes lists the calls, opened the pages)
\* and no page is left on which it was not called, whatever navigation and
\* reading ended in; while the fetch runs, the only page that can be open is
\* the one of the pass under way.
C8_PageClosedExactlyOnce ==
    AnyRenderedFetch =>
        /\ ItemFinished => (open_pages = {} /\ closes = opened)
        /\ open_pages \subseteq {page}
        /\ \A i, j \in 1..Len(closes) : closes[i] = closes[j] => i = j

\* A rendered fetch returned after three passes that each opened a page and
\* timed out.
C8_Witness ==
    /\ RenderedFetch
    /\ ItemFinished
    /\ Len(opened) = MAX_RETRIES
    /\ closes = opened
    /\ raised = "TimeoutError"

\* C9: a rendered fetch that ran without the rendering engine installed has
\* called get_browser once, slept for no backoff delay, opened no page and
\* returned the error outcome with the installation message.
C9_MissingDependencyIsFatal ==
    (RenderedFetch /\ ~installed /\ ItemFinished) =>
        /\ nacq = 1
        /\ delays = <<>>
        /\ opened = <<>>
        /\ launches = 0
        /\ results[Current.url].status = "error"
        /\ results[Current.url].error = "Playwright is not installed"

\* A rendered fetch returned in a process where the import fails.
C9_Witness ==
    /\ RenderedFetch
    /\ ~installed
    /\ ItemFinished
    /\ raised = NOT_INSTALLED
    /\ nacq = 1

\* The stored handle is there and reports itself connected.
C10_StoredAndConnected == br # 0 /\ live = "connected"

\* One get_browser call (nacq counts them; browser' is the handle it
\* returned, 0 when it raised).
C10_Acquisition ==
    nacq' = nacq + 1 =>
        \* stored and connected: the stored handle, and nothing is launched
        /\ C10_StoredAndConnected =>
             /\ browser' = br
             /\ br' = br
             /\ launches' = launches
             /\ starts' = starts
        \* a handle returned without a launch is the stored, connected one
        /\ (browser' # 0 /\ launches' = launches) =>
             (C10_StoredAndConnected /\ browser' = br)
        \* otherwise the handle returned is the one new browser, now stored
        /\ (browser' # 0 /\ ~C10_StoredAndConnected) =>
             /\ launches' = launches + 1
             /\ browser' = launches'
             /\ browser' # br
             /\ br' = browser'
             /\ live' = "connected"
        /\ launches' <= launches + 1

\* As long as no stored browser lost its connection, one browser at most was
\* launched and every handle returned is that one.
C10_LaunchedOnce ==
    ~dropped =>
        /\ launches <= 1
        /\ browser \in {0, br}
        /\ browser # 0 => (launches = 1 /\ browser = 1)

\* C10: get_browser returns the stored handle without launching if and only
\* if a handle is stored and reports itself connected; a call that finds no
\* such handle and returns has launched exactly one browser, stored it in
\* place of the old one and returned it; with no disconnect the browser is
\* launched once and every call returns the same handle.
C10_LivenessRevalidated ==
    /\ [][C10_Acquisition]_vars
    /\ []C10_LaunchedOnce

\* After the stored browser lost its connection, an acquisition launched a
\* second browser, stored it and returned it.
C10_Witness ==
    /\ dropped
    /\ launches = 2
    /\ br = 2
    /\ browser = 2
    /\ live = "connected"

\* No manager call is suspended at an await.
AllIdle == \A c \in Callers : cpc[c] = "idle"

\* The manager calls made so far ran one after the other, and the last one
\* to complete was a cleanup_browser call.
AfterSequentialCleanup ==
    /\ tool \in Managers
    /\ ~overlapped
    /\ AllIdle
    /\ last.op = "cleanup_browser"

\* C11: cleanup_browser, of the package and of server.py, never raises
\* whatever close() and stop() end in; after a failed close() it still calls
\* stop(); and when it has returned neither handle is stored.
C11_CleanupSwallowsEveryError ==
    AfterSequentialCleanup =>
        /\ last.result = "returned"
        /\ last.close = "Exception" => last.stop # "none"
        /\ br = 0
        /\ pw = 0

\* This step is the call of cleanup_browser() by an idle caller: the caller
\* is then suspended in close() or stop(), or the call has already returned
\* or raised.
BeginsCleanup ==
    /\ ncalls' = ncalls + 1
    /\ \/ \E c \in Callers : cpc[c] = "idle" /\ cpc'[c] \in {"close", "stop"}
       \/ cpc' = cpc /\ last'.op = "cleanup_browser"

\* The call made by this step returned at once, having called neither
\* close() nor stop() and written nothing.
DoesNothing ==
    /\ cpc' = cpc
    /\ last'.op = "cleanup_browser"
    /\ last'.result = "returned"
    /\ ncloses' = ncloses
    /\ nstops' = nstops
    /\ unclosed' = unclosed
    /\ UNCHANGED manager

C13_TruncationLaw ==
    (/\ tool \in {"pkg_scrape", "srv_scrape"}
     /\ ItemFinished
     /\ results[Current.url].status = "success") =>
        LET o == results[Current.url] IN
            /\ {"truncated", "original_length"} \subseteq DOMAIN o
            /\ o.truncated = (o.original_length > MAX_CONTENT_LENGTH)
            /\ o.length = IF o.truncated THEN MAX_CONTENT_LENGTH + 3
                                         ELSE o.original_length

\* The key under which an item is to be recorded.
NaturalKey(config) ==
    IF "url" \in DOMAIN config THEN config.url
    ELSE IF "query" \notin DOMAIN config THEN "<missing_query>"
    ELSE IF config.query = "" THEN "<missing_query>"
    ELSE config.query

\* The keys of the first n items, in input order.
InputKeys(n) == [i \in 1..n |-> NaturalKey(items[i])]

\* The mapping holds the keys of the items processed so far, once each, in
\* the order of their first occurrence in the input.
C14_KeysInInputOrder ==
    (tool \in PackageTools /\ pc \in {"loop", "done"}) =>
        /\ DOMAIN results = {NaturalKey(items[i]) : i \in 1..idx}
        /\ Cardinality(DOMAIN results) = Len(FirstOccurrences(InputKeys(idx)))
        /\ DictKeys = FirstOccurrences(InputKeys(idx))

\* Once an item is finished, the outcome under its key is its own: a success
\* exactly when its last request (its last pass, for a rendered fetch)
\* succeeded.
C14_OutcomeIsOwn ==
    (tool \in PackageTools /\ ItemFinished) =>
        LET o == results[NaturalKey(Current)] IN
            o.status = IF RenderedFetch
                       THEN (IF raised = "none" THEN "success" ELSE "error")
                       ELSE (IF resps # <<>> /\ resps[Len(resps)] = "ok"
                             THEN "success" ELSE "error")

\* A step writes the mapping only under the key of the item being processed
\* and leaves the outcomes under the other keys as they are.
C14_WritesOwnKeyOnly ==
    (tool \in PackageTools /\ results' # results) =>
        /\ idx' >= 1
        /\ NaturalKey(items[idx']) \in DOMAIN results'
        /\ \A k \in DOMAIN results' \ {NaturalKey(items[idx'])} :
               k \in DOMAIN results /\ results'[k] = results[k]

\* C14: the mapping returned by the package's search_web / scrape_pages is
\* keyed by the items' natural keys (query, URL, or the sentinel): its key
\* set is the set of the input's keys, one entry per distinct key, in order
\* of first occurrence, and under a key occurring several times stands the
\* outcome of the last item with that key (every item overwrites the outcome
\* under its own key and no other).
C14_KeyedByNaturalKey ==
    /\ []C14_KeysInInputOrder
    /\ []C14_OutcomeIsOwn
    /\ [][C14_WritesOwnKeyOnly]_vars

\* Two searches for the same query: the first failed, the second succeeded;
\* the mapping returned has the one key, with the success under it.
C14_Witness ==
    /\ tool = "pkg_search"
    /\ pc = "done"
    /\ Len(items) = 2
    /\ NaturalKey(items[1]) = "q1"
    /\ NaturalKey(items[2]) = "q1"
    /\ Len(resps) = 1
    /\ DictKeys = <<"q1">>
    /\ results["q1"].status = "success"
    /\ hits = 0

\* This step performs an external operation: a request, a backoff delay, a
\* get_browser call, or an operation on a page.
ExternalOperation ==
    \/ Len(resps') > Len(resps)
    \/ Len(delays') > Len(delays)
    \/ Len(waits') > Len(waits)
    \/ Len(opened') > Len(opened)
    \/ Len(closes') > Len(closes)
    \/ nacq' > nacq
    \/ pc \in {"goto", "read"}

\* An item is taken from the list only when the item before it is finished
\* and recorded, with no page left; and every external operation belongs to
\* the one item taken last, before its outcome is recorded.
C15_Step ==
    tool \in PackageTools =>
        /\ idx' # idx =>
             /\ idx' = idx + 1
             /\ pc = "loop"
             /\ Len(writes) = idx
             /\ page = 0
             /\ open_pages = {}
             /\ pending = NoPending
        /\ ExternalOperation =>
             /\ idx' = idx
             /\ idx >= 1
             /\ pc \notin {"loop", "done"}
             /\ Len(writes) = idx - 1

\* C15: within one batch call of the package the items are processed one at
\* a time in input order: every request, delay and page operation of an item
\* is done, and its outcome written, before the next item is taken.
C15_OneItemAtATime == [][C15_Step]_vars

\* The second item of a batch has a page open after the first, a rendered
\* fetch that gave up after MAX_RETRIES passes, was recorded.
C15_Witness ==
    /\ tool = "pkg_scrape"
    /\ idx = 2
    /\ Len(writes) = 1
    /\ items[1].method = "browser"
    /\ results[items[1].url].status = "error"
    /\ starts = 1
    /\ launches = 1
    /\ pc = "goto"
    /\ open_pages = {page}

\* Entry i of the backend's array reduced to title, url and content, the
\* empty string standing for a field the entry lacks.
C16_Projected(i) ==
    LET e == BackendHit(i) IN
        [title   |-> IF "title" \in DOMAIN e THEN e.title ELSE "",
         url     |-> IF "url" \in DOMAIN e THEN e.url ELSE "",
         content |-> IF "content" \in DOMAIN e THEN e.content ELSE ""]

\* C16: a successful outcome of the package's search_query holds the first
\* n entries of the backend's array, n the clamped num_results or the number
\* of hits if smaller, in the backend's order, each reduced to title, url and
\* content with "" for a missing field, and count = n; every error outcome
\* has count 0 and no results.
C16_FirstEntriesProjected ==
    tool = "pkg_search" =>
        /\ (/\ ItemFinished
            /\ resps # <<>>
            /\ resps[Len(resps)] = "ok") =>
               LET o == results[Current.query]
                   n == Min(C4_Clamp(GetNumResults(Current)), hits)
               IN  /\ o.status = "success"
                   /\ o.count = n
                   /\ o.results = [i \in 1..n |-> C16_Projected(i)]
        /\ \A k \in DOMAIN results :
               results[k].status = "error" =>
                   (results[k].count = 0 /\ results[k].results = <<>>)

\* A search asking for 7 results of a backend with 20 hits returned 7; the
\* second entry, which had no title, has the empty title.
C16_Witness ==
    /\ tool = "pkg_search"
    /\ ItemFinished
    /\ resps = <<"ok">>
    /\ hits = 20
    /\ "num_results" \in DOMAIN Current
    /\ Current.num_results = 7
    /\ results[Current.query].count = 7
    /\ results[Current.query].results[2].title = ""
    /\ results[Current.query].results[2].url = "url2"

\* The form of a normalized text: words separated by single spaces, no other
\* whitespace, none at either end.
C17_Normalized(t) ==
    /\ \A i \in 1..Len(t) : t[i] \in {"\n", "\t"} => FALSE
    /\ t # <<>> => (t[1] # " " /\ t[Len(t)] # " ")
    /\ \A i \in 1..(Len(t) - 1) : ~(t[i] = " " /\ t[i + 1] = " ")

\* C17: the whitespace normalization of clean_html yields, for every text, a
\* text of single-spaced words with no whitespace at either end, and applied
\* to a text it has produced it returns that text.
C17_NormalizationIdempotent ==
    /\ [](passes >= 1 => C17_Normalized(text))
    /\ [][passes >= 1 => text' = text]_vars

\* The normalization was applied twice to a text that had a run of
\* whitespace between two words and whitespace at both ends.
C17_Witness ==
    /\ tool = "clean_html"
    /\ passes = 2
    /\ text = <<"a", " ", "b">>

\* What search_query decides on the current item when its first request ends
\* as the one request server.search_web made for the item did.
C18_search_query ==
    IF resps[1] = "ok"
    THEN Return(SearchSuccess(FormatResults(PySliceTo(BackendHits(hits),
                    validate_num_results(GetNumResults(Current))))))
    ELSE search_query_except(resps[1], 0)

\* The same for scrape_with_requests and the static branch of
\* server.scrape_pages; the length of the page is not a part of the state.
C18_scrape_with_requests ==
    IF resps[1] = "ok"
    THEN Return(ScrapeSuccess("requests", MAX_CONTENT_LENGTH))
    ELSE scrape_with_requests_except(resps[1], 0)

\* C18: the tools of server.py produce what the orchestrators of the package
\* produce: when server.search_web or the static branch of server.scrape_pages
\* has finished an item, the package would make a request for that item too,
\* would return after the same responses, and would store the same outcome
\* (for a fetched page: an outcome with the same fields).
C18_ServerDelegates ==
    /\ (tool = "srv_search" /\ ItemFinished) =>
          /\ ~QueryMissing(Current)
          /\ C18_search_query.kind = "return"
          /\ results[Current.query] = C18_search_query.outcome
    /\ (tool = "srv_scrape" /\ ItemFinished /\ Current.method = "requests") =>
          /\ C18_scrape_with_requests.kind = "return"
          /\ DOMAIN results[Current.url] = DOMAIN C18_scrape_with_requests.outcome
          /\ resps[1] # "ok" => results[Current.url] = C18_scrape_with_requests.outcome

\* C19: whatever the interleaving of the calls of get_browser and
\* cleanup_browser at their awaits, at most one launched browser is not yet
\* closed, and a launched browser that is not closed is the stored handle.
C19_SingleSharedBrowser ==
    /\ Cardinality(unclosed) <= 1
    /\ unclosed \subseteq {br}

\* The passes of the retry loop begun for the current item: each pass of
\* search_query and scrape_with_requests makes one request, each pass of
\* scrape_with_browser one call of get_browser.
C20_Attempts ==
    IF tool = "pkg_search" \/ Current.method = "requests" THEN Len(resps) ELSE nacq

\* C20: in search_query, scrape_with_requests and scrape_with_browser the
\* k-th backoff sleep of an item lasts RETRY_DELAY * k, there are never more
\* sleeps than passes begun nor as many as MAX_RETRIES, and an item that
\* finished after a passes slept a - 1 times: none after the last pass.
C20_LinearBackoff ==
    (tool \in PackageTools /\ idx >= 1) =>
        /\ \A k \in 1..Len(delays) : delays[k] = RETRY_DELAY * k
        /\ Len(delays) <= C20_Attempts
        /\ Len(delays) < MAX_RETRIES
        /\ (ItemFinished /\ C20_Attempts >= 1) => Len(delays) = C20_Attempts - 1

\* A rendered fetch failed in every pass: MAX_RETRIES passes, one sleep fewer,
\* and the error outcome.
C20_Witness ==
    /\ RenderedFetch
    /\ ItemFinished
    /\ nacq = MAX_RETRIES
    /\ delays = [k \in 1..(MAX_RETRIES - 1) |-> RETRY_DELAY * k]
    /\ CurrentOutcome.status = "error"

\* The requests of the current item so far: k transient failures (a timeout
\* or a connection failure each), then a success.
C21_FailuresThenSuccess ==
    /\ resps # <<>>
    /\ resps[Len(resps)] = "ok"
    /\ \A i \in 1..(Len(resps) - 1) : resps[i] \in {"Timeout", "ConnectionError"}

\* C21: in search_query and scrape_with_requests a success is the last
\* request of the item; when k < MAX_RETRIES transient failures came before
\* it, the executor has returned after these k + 1 requests, and what it
\* returned is the success outcome built from the last response alone, the
\* one a success at the first request gives: no error field, no other trace
\* of the failures.
C21_RetryStopsAtFirstSuccess ==
    (tool = "pkg_search" \/ StaticFetch) =>
        /\ \A i \in 1..Len(resps) : resps[i] = "ok" => i = Len(resps)
        /\ Len(resps) <= MAX_RETRIES
        /\ C21_FailuresThenSuccess =>
             /\ ItemFinished
             /\ Len(delays) = Len(resps) - 1
             /\ CurrentOutcome.status = "success"
             /\ CurrentOutcome =
                  IF tool = "pkg_search"
                  THEN [status |-> "success",
                        count |-> Min(num_results, hits),
                        results |-> FormatResults(PySliceTo(BackendHits(hits), num_results))]
                  ELSE [status |-> "success", method |-> "requests",
                        length |-> TruncatedLength(CurrentOutcome.original_length),
                        original_length |-> CurrentOutcome.original_length,
                        truncated |-> (CurrentOutcome.original_length > MAX_CONTENT_LENGTH)]

\* A search timed out, failed to connect, and succeeded at its third request.
C21_Witness ==
    /\ tool = "pkg_search"
    /\ resps = <<"Timeout", "ConnectionError", "ok">>
    /\ ItemFinished
    /\ CurrentOutcome.status = "success"
    /\ CurrentOutcome.count > 0

C23_StaticPositions == {"request", "sleep", "loop", "done"}
C23_RenderedPositions ==
    {"acquire", "new_page", "goto", "wait", "read", "backoff", "finally", "loop", "done"}

\* What holds in every state of a scrape_pages call of the package.
C23_Dispatched ==
    /\ StaticFetch =>
         /\ pc \in C23_StaticPositions
         /\ waits = <<>>
         /\ nacq = 0
         /\ opened = <<>>
    /\ RenderedFetch =>
         /\ pc \in C23_RenderedPositions
         /\ resps = <<>>
         /\ Len(waits) <= nacq
         /\ \A i \in 1..Len(waits) : waits[i] = Current.wait_time /\ waits[i] > 0
         /\ pc = "wait" => (page # 0 /\ Current.wait_time > 0)

\* What holds of every step of a rendered fetch of the package: a successful
\* navigation is followed by the wait when wait_time > 0 and by the reading
\* when it is 0, the reading begins after the wait or after a navigation
\* with wait_time = 0, and the wait is the only step that suspends for wait_time.
C23_WaitStep ==
    (RenderedFetch /\ idx' = idx) =>
        /\ (pc = "goto" /\ pc' \in {"wait", "read"}) =>
             pc' = IF Current.wait_time > 0 THEN "wait" ELSE "read"
        /\ (pc # "read" /\ pc' = "read") =>
             \/ pc = "wait" /\ waits' = Append(waits, Current.wait_time)
             \/ pc = "goto" /\ Current.wait_time = 0 /\ waits' = waits
        /\ waits' # waits => (pc = "wait" /\ pc' = "read")

\* C23: scrape_pages sends each item to the strategy its method names: a
\* static item makes no call of get_browser, opens no page and never suspends
\* for wait_time; a rendered item makes no static request and suspends for
\* wait_time seconds exactly when wait_time > 0, once in each pass whose
\* navigation succeeded, between the navigation and the reading of the page.
C23_DispatchByMethod ==
    /\ [](tool = "pkg_scrape" => C23_Dispatched)
    /\ [][C23_WaitStep]_vars

\* A rendered fetch with wait_time > 0 has waited once and is about to read
\* the page.
C23_Witness ==
    /\ RenderedFetch
    /\ Current.wait_time > 0
    /\ pc = "read"
    /\ waits = <<Current.wait_time>>

\* The passes of the retry loop of the current item, for either strategy.
C24_ItemAttempts == IF nacq > 0 THEN nacq ELSE Len(resps)

\* The totals of a batch call of the package never exceed what the items
\* taken so far allow.
C24_WithinBudget ==
    (metered /\ tool \in PackageTools) =>
        /\ idx <= Len(items)
        /\ C24_ItemAttempts <= MAX_RETRIES
        /\ Len(delays) <= MAX_RETRIES - 1
        /\ fetches <= idx * MAX_RETRIES
        /\ backoffs <= idx * (MAX_RETRIES - 1)
        /\ pc = "done" =>
             /\ Len(writes) = Len(items)
             /\ fetches <= Len(items) * MAX_RETRIES
             /\ backoffs <= Len(items) * (MAX_RETRIES - 1)

\* C24: when every external call returns or fails, a batch call of the
\* package ends, and it ends by returning its mapping; no item makes more
\* than MAX_RETRIES attempts, so that a call with N items has made at most
\* N * MAX_RETRIES attempts and slept at most N * (MAX_RETRIES - 1) backoff
\* delays when it returns.  (A call of a tool of server.py ends as well,
\* by returning or by raising.)
C24_TerminatesWithinBudget ==
    /\ []C24_WithinBudget
    /\ <>(pc = "done" \/ (tool \in ServerTools /\ pc = "raised"))

\* A batch of two rendered fetches returned after the most attempts and
\* delays two items allow.
C24_Witness ==
    /\ metered
    /\ tool = "pkg_scrape"
    /\ pc = "done"
    /\ Len(items) = 2
    /\ fetches = 2 * MAX_RETRIES
    /\ backoffs = 2 * (MAX_RETRIES - 1)

\* What holds in every state of a rendered fetch of the package: the pages
\* are closed in the order in which they were opened, and the page of the
\* pass under way is the only one that can be open.
C25_Alternating ==
    RenderedFetch =>
        /\ Cardinality(open_pages) <= 1
        /\ Len(closes) <= Len(opened)
        /\ Len(opened) <= Len(closes) + 1
        /\ closes = SubSeq(opened, 1, Len(closes))
        /\ open_pages = {opened[i] : i \in (Len(closes) + 1)..Len(opened)}
        /\ pc \in {"acquire", "new_page"} => (open_pages = {} /\ closes = opened)
        /\ (pc = "backoff" /\ page # 0) => open_pages = {page}
        /\ ItemFinished => Len(closes) = Len(opened)

\* A step of a rendered fetch that calls close(): it is made in the finally
\* block, on the one open page, and when the pass is to be retried the
\* backoff delay of the pass was slept before.
C25_CloseStep ==
    (RenderedFetch /\ idx' = idx /\ closes' # closes) =>
        /\ pc = "finally"
        /\ open_pages = {page}
        /\ closes' = Append(closes, page)
        /\ open_pages' = {}
        /\ pending.kind = "continue" => Len(delays) = attempt + 1

\* C25: within a rendered fetch one page at most is open at any time; the
\* page of a failed pass is closed after the backoff delay of that pass and
\* before the next pass calls get_browser and opens its page; opening and
\* closing alternate, and when the fetch returns close() was called as many
\* times as pages were opened.
C25_OnePageAtATime ==
    /\ []C25_Alternating
    /\ [][C25_CloseStep]_vars

\* The second pass of a rendered fetch failed and sleeps its backoff delay:
\* its page is still open, the page of the first pass is closed.
C25_Witness ==
    /\ RenderedFetch
    /\ pc = "backoff"
    /\ Len(opened) = 2
    /\ closes = <<opened[1]>>
    /\ open_pages = {opened[2]}

\* The step of a rendered fetch that runs the finally block, in which close()
\* is called on the page and may raise: what the try block and the except
\* clauses decided before it stands after it.  pending holds that decision:
\* the outcome to return (package), an exception on its way to the except
\* clauses of the item (server.py), or nothing more to do (server.py, the
\* success is already in the mapping; package, the pass is retried).
C26_FinallyStep ==
    (AnyRenderedFetch /\ pc = "finally" /\ pc' # "finally") =>
        /\ pc' # "raised"
        /\ CASE pending.kind = "return" ->
                  /\ pc' = "loop"
                  /\ results'[Current.url] = pending.outcome
             [] pending.kind = "raise" ->
                  /\ pc' = "loop"
                  /\ results'[Current.url] = ServerScrapeError("browser", pending.exc)
             [] OTHER ->
                  results' = results

\* C26: a fault raised by page.close() changes nothing of the outcome of a
\* rendered fetch, in scraper.py and in server.py: the outcome in the mapping
\* after the finally block is the one determined before it (a success stays
\* the success, an error the same error), and the fault does not leave the
\* fetch.
C26_CloseFaultKeepsOutcome == [][C26_FinallyStep]_vars

\* The same of the package alone.
C26_PackageCloseFaultKeepsOutcome == [][tool = "pkg_scrape" => C26_FinallyStep]_vars

\* A step of the manager in a history of calls made one after the other: an
\* engine is started only while none is stored, and it is then the stored
\* one; a stored engine handle is unset only by the cleanup_browser call
\* whose stop() has just completed.
C27_EngineStep ==
    ~overlapped' =>
        /\ starts' # starts => (pw = 0 /\ starts' = starts + 1 /\ pw' = starts')
        /\ (pw # 0 /\ pw' # pw) =>
             (pw' = 0 /\ \E c \in Callers : cpc[c] = "stop" /\ cpc'[c] = "idle")

\* C27: when get_browser and cleanup_browser are called one after the other,
\* each call completing before the next begins and whatever their external
\* steps end in, a stored browser handle always comes with a stored engine
\* handle, and an engine is started only when no engine handle is stored:
\* once at most from one cleanup to the next.
C27_BrowserImpliesEngine ==
    /\ [](~overlapped => (br # 0 => pw # 0))
    /\ [][C27_EngineStep]_vars

\* Three calls one after the other, get_browser, cleanup_browser and
\* get_browser again: the engine was started a second time after the cleanup
\* had stopped the first, and both handles are stored.
C27_Witness ==
    /\ ~overlapped
    /\ ncalls = 3
    /\ \A c \in Callers : cpc[c] = "idle"
    /\ starts = 2
    /\ nstops = 1
    /\ pw = 2
    /\ br # 0

\* The batch is a search batch, or a scrape batch of static items only.
C28_NoRenderedItem ==
    \/ tool \in SearchTools
    \/ /\ tool \in {"pkg_scrape", "srv_scrape"}
       /\ \A i \in 1..Len(items) : items[i].method = "requests"

\* The current item is a search, or a static fetch.
C28_StaticItem ==
    /\ idx >= 1
    /\ tool \in SearchTools \/ Current.method = "requests"

\* A step made for a search or for a static fetch leaves the globals of the
\* manager and its counts as they are, whatever they are.
C28_ManagerUntouched ==
    (C28_StaticItem /\ idx' = idx) =>
        UNCHANGED <<pw, br, starts, launches, nacq, browser, opened>>

\* C28: a search batch and a scrape batch of static items only never call
\* get_browser, start no engine, launch no browser and open no page: the
\* stored engine and browser handles are after the call what they were
\* before it.  The same holds of each step made for a static item of a mixed
\* batch, where a browser may be stored.
C28_StaticLeavesManagerAlone ==
    /\ [](C28_NoRenderedItem =>
            /\ pw = 0 /\ br = 0 /\ live = "none"
            /\ starts = 0 /\ launches = 0
            /\ nacq = 0 /\ browser = 0 /\ opened = <<>>)
    /\ [][C28_ManagerUntouched]_vars

\* A scrape batch of two static items has returned.
C28_Witness ==
    /\ tool = "pkg_scrape"
    /\ C28_NoRenderedItem
    /\ Len(items) = 2
    /\ pc = "done"
    /\ Len(writes) = 2
    /\ pw = 0
    /\ br = 0

====
